---- MODULE Spec2Model ----
(***************************************************************************)
(* Model of jarmoe13/clarity-harvester: the dashboard's metric lookup and  *)
(* composite-score calculators (src/dashboard.py) and the table loops of   *)
(* the dashboard script that apply them to a loaded snapshot.              *)
(*                                                                         *)
(* Numbers.  Percentages are fixed-point integers in hundredths of a       *)
(* percent (12.34 % is 1234).  The weights of the formulas are hundredths  *)
(* as well (0.35 is 35), so a weighted sum is an integer in units of       *)
(* 1/10000; round(x, 2) takes such a sum back to hundredths.               *)
(*                                                                         *)
(* Python values are tagged records [t, v]: t = "num" (v the number in     *)
(* hundredths), t = "str" (a non-numeric string, which float() rejects),   *)
(* t = "none" (None), t = "absent" (the key is not in the dict) and, for   *)
(* results only, t = "raise" (a ValueError propagated to the caller).      *)
(***************************************************************************)
EXTENDS Integers, Sequences, FiniteSets, TLC

VARIABLES country_data, called, args, result,
          clarity_data, pc, idx, tables,
          cls,
          clock, disk, run, issued,
          cache, session, http_log, loaded

calcVars == <<country_data, called, args, result>>
dashVars == <<clarity_data, pc, idx, tables>>
clsVars == <<cls>>
harvVars == <<clock, disk, run, issued>>
loadVars == <<cache, session, http_log, loaded>>
otherVars == <<clsVars, harvVars, loadVars>>
vars == <<country_data, called, args, result, clarity_data, pc, idx, tables,
          cls, clock, disk, run, issued, cache, session, http_log, loaded>>

----------------------------------------------------------------------------
(* Bounds of the model *)

MaxBlocks == 2      \* longest 'webshop' list of the lookup specification
MaxInfo == 2        \* longest 'information' list of the lookup specification
MaxCountries == 3   \* most countries in a loaded snapshot
MaxUrls == 2        \* most entries of a PopularPages or ReferrerUrl block
MaxIssued == 3      \* most API requests of direct fetch_project_data calls
MaxRows == 3        \* most rows of projects.csv in the harvest specification
MaxProjects == 6    \* most rows of projects.csv in the API-limit specification
MaxRuns == 2        \* most harvest runs in the snapshot specification
MaxDay == 2         \* last day of month reached in the snapshot specification
MaxSessions == 2    \* browser sessions of the dashboard

----------------------------------------------------------------------------
(* Python values *)

None == [t |-> "none", v |-> 0]
Absent == [t |-> "absent", v |-> 0]
ValueError == [t |-> "raise", v |-> 0]
Num(n) == [t |-> "num", v |-> n]
BadStr == [t |-> "str", v |-> 0]

\* the two keys the dashboard reads from the first 'information' entry
Keys == {"sessionsWithMetricPercentage", "averageScrollDepth"}

\* truth value of a Python object used in `x or d` and in `if not x`
Truthy(x) ==
    CASE x.t = "num" -> x.v # 0
      [] x.t = "str" -> TRUE
      [] OTHER -> FALSE

\* dict.get(key): None when the key is not in the dict
PyGet(entry, key) == IF entry[key].t = "absent" THEN None ELSE entry[key]

\* float(x or d)
FloatOr(x, d) ==
    IF Truthy(x)
    THEN (IF x.t = "num" THEN x ELSE ValueError)
    ELSE Num(d)

\* round(x, 2) of a non-negative x given in units of 1/10000
Round2(x) ==
    LET q == x \div 100
        r == x % 100
    IN  IF r < 50 THEN q
        ELSE IF r > 50 THEN q + 1
        ELSE IF q % 2 = 0 THEN q ELSE q + 1

Min(a, b) == IF a < b THEN a ELSE b
Max(a, b) == IF a > b THEN a ELSE b

\* `not country_data.get('webshop')`
NoWebshop(cd) == ~(cd.webshop.t = "list" /\ Len(cd.webshop.v) > 0)

----------------------------------------------------------------------------
(* get_metric_value *)

RECURSIVE ScanMetrics(_, _, _, _)
ScanMetrics(ws, i, metric_name, info_key) ==
    IF i > Len(ws) THEN None
    ELSE IF ws[i].metricName = metric_name /\ Len(ws[i].information) > 0
         THEN PyGet(ws[i].information[1], info_key)
         ELSE ScanMetrics(ws, i + 1, metric_name, info_key)

get_metric_value(cd, metric_name, info_key) ==
    IF NoWebshop(cd) THEN None
    ELSE ScanMetrics(cd.webshop.v, 1, metric_name, info_key)

----------------------------------------------------------------------------
(* Score calculators.  Every operand is float(get_metric_value(..) or d);  *)
(* a ValueError of any float() leaves the calculator as an exception.      *)

PCT == "sessionsWithMetricPercentage"
ASD == "averageScrollDepth"

Raises(xs) == \E x \in xs : x.t = "raise"

\* mutant: the weights of rage clicks and dead clicks exchanged
calculate_frustration_index_swapped(cd) ==
    IF NoWebshop(cd) THEN None
    ELSE
      LET dead_clicks == FloatOr(get_metric_value(cd, "DeadClickCount", PCT), 0)
          rage_clicks == FloatOr(get_metric_value(cd, "RageClickCount", PCT), 0)
          script_errors == FloatOr(get_metric_value(cd, "ScriptErrorCount", PCT), 0)
          error_clicks == FloatOr(get_metric_value(cd, "ErrorClickCount", PCT), 0)
          quickback == FloatOr(get_metric_value(cd, "QuickbackClick", PCT), 0)
          frustration == rage_clicks.v * 25 + dead_clicks.v * 35
                         + script_errors.v * 20 + error_clicks.v * 15
                         + quickback.v * 5
      IN  IF Raises({dead_clicks, rage_clicks, script_errors, error_clicks, quickback})
          THEN ValueError
          ELSE Num(Round2(Min(frustration, 100 * 10000)))

\* mutant: the quickback term is left out of the sum
calculate_frustration_index_no_quickback(cd) ==
    IF NoWebshop(cd) THEN None
    ELSE
      LET dead_clicks == FloatOr(get_metric_value(cd, "DeadClickCount", PCT), 0)
          rage_clicks == FloatOr(get_metric_value(cd, "RageClickCount", PCT), 0)
          script_errors == FloatOr(get_metric_value(cd, "ScriptErrorCount", PCT), 0)
          error_clicks == FloatOr(get_metric_value(cd, "ErrorClickCount", PCT), 0)
          quickback == FloatOr(get_metric_value(cd, "QuickbackClick", PCT), 0)
          frustration == rage_clicks.v * 35 + dead_clicks.v * 25
                         + script_errors.v * 20 + error_clicks.v * 15
      IN  IF Raises({dead_clicks, rage_clicks, script_errors, error_clicks, quickback})
          THEN ValueError
          ELSE Num(Round2(Min(frustration, 100 * 10000)))

calculate_frustration_index(cd) ==
    IF NoWebshop(cd) THEN None
    ELSE
      LET dead_clicks == FloatOr(get_metric_value(cd, "DeadClickCount", PCT), 0)
          rage_clicks == FloatOr(get_metric_value(cd, "RageClickCount", PCT), 0)
          script_errors == FloatOr(get_metric_value(cd, "ScriptErrorCount", PCT), 0)
          error_clicks == FloatOr(get_metric_value(cd, "ErrorClickCount", PCT), 0)
          quickback == FloatOr(get_metric_value(cd, "QuickbackClick", PCT), 0)
          frustration == rage_clicks.v * 35 + dead_clicks.v * 25
                         + script_errors.v * 20 + error_clicks.v * 15
                         + quickback.v * 5
      IN  IF Raises({dead_clicks, rage_clicks, script_errors, error_clicks, quickback})
          THEN ValueError
          ELSE Num(Round2(Min(frustration, 100 * 10000)))

\* mutant: a missing scroll depth counts as 0 instead of 50
calculate_conversion_risk_zero_default(cd) ==
    IF NoWebshop(cd) THEN None
    ELSE
      LET quickback == FloatOr(get_metric_value(cd, "QuickbackClick", PCT), 0)
          dead_clicks == FloatOr(get_metric_value(cd, "DeadClickCount", PCT), 0)
          error_clicks == FloatOr(get_metric_value(cd, "ErrorClickCount", PCT), 0)
          scroll_depth == FloatOr(get_metric_value(cd, "ScrollDepth", ASD), 0)
          risk == quickback.v * 40 + dead_clicks.v * 30 + error_clicks.v * 20
                  + (100 * 100 - scroll_depth.v) * 10
      IN  IF Raises({quickback, dead_clicks, error_clicks, scroll_depth})
          THEN ValueError
          ELSE Num(Round2(Min(risk, 100 * 10000)))

calculate_conversion_risk(cd) ==
    IF NoWebshop(cd) THEN None
    ELSE
      LET quickback == FloatOr(get_metric_value(cd, "QuickbackClick", PCT), 0)
          dead_clicks == FloatOr(get_metric_value(cd, "DeadClickCount", PCT), 0)
          error_clicks == FloatOr(get_metric_value(cd, "ErrorClickCount", PCT), 0)
          scroll_depth == FloatOr(get_metric_value(cd, "ScrollDepth", ASD), 50 * 100)
          risk == quickback.v * 40 + dead_clicks.v * 30 + error_clicks.v * 20
                  + (100 * 100 - scroll_depth.v) * 10
      IN  IF Raises({quickback, dead_clicks, error_clicks, scroll_depth})
          THEN ValueError
          ELSE Num(Round2(Min(risk, 100 * 10000)))

\* mutant: the weights of script errors and error clicks exchanged
calculate_tech_health_swapped(cd) ==
    IF NoWebshop(cd) THEN None
    ELSE
      LET script_errors == FloatOr(get_metric_value(cd, "ScriptErrorCount", PCT), 0)
          error_clicks == FloatOr(get_metric_value(cd, "ErrorClickCount", PCT), 0)
          health == 100 * 10000 - (script_errors.v * 40 + error_clicks.v * 60)
      IN  IF Raises({script_errors, error_clicks})
          THEN ValueError
          ELSE Num(Round2(Max(health, 0)))

calculate_tech_health(cd) ==
    IF NoWebshop(cd) THEN None
    ELSE
      LET script_errors == FloatOr(get_metric_value(cd, "ScriptErrorCount", PCT), 0)
          error_clicks == FloatOr(get_metric_value(cd, "ErrorClickCount", PCT), 0)
          health == 100 * 10000 - (script_errors.v * 60 + error_clicks.v * 40)
      IN  IF Raises({script_errors, error_clicks})
          THEN ValueError
          ELSE Num(Round2(Max(health, 0)))

\* mutant: the result is not floored at 0
calculate_engagement_unfloored(cd) ==
    IF NoWebshop(cd) THEN None
    ELSE
      LET scroll_depth == FloatOr(get_metric_value(cd, "ScrollDepth", ASD), 0)
          rage_clicks == FloatOr(get_metric_value(cd, "RageClickCount", PCT), 0)
          engagement == scroll_depth.v * 100 - rage_clicks.v * 50
      IN  IF Raises({scroll_depth, rage_clicks})
          THEN ValueError
          ELSE Num(Round2(engagement))

calculate_engagement(cd) ==
    IF NoWebshop(cd) THEN None
    ELSE
      LET scroll_depth == FloatOr(get_metric_value(cd, "ScrollDepth", ASD), 0)
          rage_clicks == FloatOr(get_metric_value(cd, "RageClickCount", PCT), 0)
          engagement == scroll_depth.v * 100 - rage_clicks.v * 50
      IN  IF Raises({scroll_depth, rage_clicks})
          THEN ValueError
          ELSE Num(Round2(Max(engagement, 0)))

\* mutant: no early return for a record without webshop metrics
calculate_localization_quality_unguarded(cd) ==
    LET script_errors == FloatOr(get_metric_value(cd, "ScriptErrorCount", PCT), 0)
        dead_clicks == FloatOr(get_metric_value(cd, "DeadClickCount", PCT), 0)
        rage_clicks == FloatOr(get_metric_value(cd, "RageClickCount", PCT), 0)
        quality == 100 * 10000 - (script_errors.v * 30 + dead_clicks.v * 50
                                  + rage_clicks.v * 20)
    IN  IF Raises({script_errors, dead_clicks, rage_clicks})
        THEN ValueError
        ELSE Num(Round2(Max(quality, 0)))

calculate_localization_quality(cd) ==
    IF NoWebshop(cd) THEN None
    ELSE
      LET script_errors == FloatOr(get_metric_value(cd, "ScriptErrorCount", PCT), 0)
          dead_clicks == FloatOr(get_metric_value(cd, "DeadClickCount", PCT), 0)
          rage_clicks == FloatOr(get_metric_value(cd, "RageClickCount", PCT), 0)
          quality == 100 * 10000 - (script_errors.v * 30 + dead_clicks.v * 50
                                    + rage_clicks.v * 20)
      IN  IF Raises({script_errors, dead_clicks, rage_clicks})
          THEN ValueError
          ELSE Num(Round2(Max(quality, 0)))

----------------------------------------------------------------------------
(* Inputs of the calculator specification: one country record whose        *)
(* 'webshop' is missing, None, an empty list, or a list that starts with   *)
(* the unscored Traffic block every export carries, followed by at most    *)
(* one block per scored metric, in the order of MetricNames.               *)

MetricNames == <<"DeadClickCount", "RageClickCount", "ScriptErrorCount",
                 "ErrorClickCount", "QuickbackClick", "ScrollDepth">>

KeyOf(name) == IF name = "ScrollDepth" THEN ASD ELSE PCT

\* percentages a block can carry: 0, 0.01, 2, 100
PctValues == {0, 1, 200, 10000}

\* what a payload holds for one metric name
Shapes == [f : {"absent", "empty", "nokey"}, v : {0}]
          \cup [f : {"value"}, v : PctValues]

EmptyEntry == [k \in Keys |-> Absent]
Entry(key, val) == [k \in Keys |-> IF k = key THEN val ELSE Absent]

BlockOf(name, shape) ==
    [metricName |-> name,
     information |-> CASE shape.f = "empty" -> <<>>
                       [] shape.f = "nokey" -> <<EmptyEntry>>
                       [] OTHER -> <<Entry(KeyOf(name), Num(shape.v))>>]

RECURSIVE BlocksFrom(_, _)
BlocksFrom(ch, i) ==
    IF i > Len(MetricNames) THEN <<>>
    ELSE (IF ch[i].f = "absent" THEN <<>> ELSE <<BlockOf(MetricNames[i], ch[i])>>)
         \o BlocksFrom(ch, i + 1)

ListOf(ws) == [t |-> "list", v |-> ws]

TrafficBlock == [metricName |-> "Traffic", information |-> <<EmptyEntry>>]

CalcPayloads ==
    {[webshop |-> Absent], [webshop |-> None], [webshop |-> ListOf(<<>>)]}
    \cup {[webshop |-> ListOf(<<TrafficBlock>> \o BlocksFrom(ch, 1))] :
            ch \in [1..Len(MetricNames) -> Shapes]}

NoArgs == [metric_name |-> "", info_key |-> ""]

DashIdle ==
    /\ clarity_data = <<>>
    /\ pc = "idle"
    /\ idx = 0
    /\ tables = <<>>

\* the classifier, the harvester and the snapshot loader at rest
ClsIdle == cls = [country |-> "", metrics |-> <<>>]

\* projects.csv (present or not, its rows), the snapshot files by date and
\* the rows of history.csv
EmptyDisk ==
    [projects |-> [exists |-> FALSE, rows |-> <<>>], files |-> <<>>, history |-> <<>>]

HarvIdle ==
    /\ clock = 1
    /\ disk = EmptyDisk
    /\ run = [pc |-> "idle"]
    /\ issued = 0

LoadIdle ==
    /\ cache = <<>>
    /\ session = <<>>
    /\ http_log = <<>>
    /\ loaded = <<>>

OtherIdle == ClsIdle /\ HarvIdle /\ LoadIdle

InitCalc ==
    /\ country_data \in CalcPayloads
    /\ called = "none"
    /\ args = NoArgs
    /\ result = None
    /\ DashIdle
    /\ OtherIdle

CallFrustrationIndex ==
    /\ called' = "calculate_frustration_index"
    /\ args' = NoArgs
    /\ result' = calculate_frustration_index(country_data)
    /\ UNCHANGED <<country_data, dashVars, otherVars>>

CallConversionRisk ==
    /\ called' = "calculate_conversion_risk"
    /\ args' = NoArgs
    /\ result' = calculate_conversion_risk(country_data)
    /\ UNCHANGED <<country_data, dashVars, otherVars>>

CallTechHealth ==
    /\ called' = "calculate_tech_health"
    /\ args' = NoArgs
    /\ result' = calculate_tech_health(country_data)
    /\ UNCHANGED <<country_data, dashVars, otherVars>>

CallEngagement ==
    /\ called' = "calculate_engagement"
    /\ args' = NoArgs
    /\ result' = calculate_engagement(country_data)
    /\ UNCHANGED <<country_data, dashVars, otherVars>>

CallLocalizationQuality ==
    /\ called' = "calculate_localization_quality"
    /\ args' = NoArgs
    /\ result' = calculate_localization_quality(country_data)
    /\ UNCHANGED <<country_data, dashVars, otherVars>>

NextCalc ==
    \/ CallFrustrationIndex
    \/ CallConversionRisk
    \/ CallTechHealth
    \/ CallEngagement
    \/ CallLocalizationQuality

SpecCalc == InitCalc /\ [][NextCalc]_vars

----------------------------------------------------------------------------
(* What the claims speak of, read off the payload itself (not through      *)
(* get_metric_value): the blocks of a name, whether the name carries a     *)
(* number, and the percentage a formula of the specification is fed.       *)

HasWebshopList(cd) == cd.webshop.t = "list" /\ Len(cd.webshop.v) > 0

BlocksNamed(cd, name) ==
    IF cd.webshop.t = "list"
    THEN {i \in 1..Len(cd.webshop.v) : cd.webshop.v[i].metricName = name}
    ELSE {}

FirstNamed(cd, name) ==
    CHOOSE i \in BlocksNamed(cd, name) : \A j \in BlocksNamed(cd, name) : i <= j

\* the value of the first entry of the first block of that name, or None
FirstBlockValue(cd, name, key) ==
    IF BlocksNamed(cd, name) = {} THEN None
    ELSE LET info == cd.webshop.v[FirstNamed(cd, name)].information
         IN  IF Len(info) = 0 THEN None ELSE PyGet(info[1], key)

\* the metric is absent, has an empty 'information', or lacks the key
MetricMissing(cd, name) ==
    \A i \in BlocksNamed(cd, name) :
        LET info == cd.webshop.v[i].information
        IN  Len(info) = 0 \/ info[1][KeyOf(name)].t = "absent"

\* the percentage of a metric, d when it is missing
Pct(cd, name, d) ==
    LET x == FirstBlockValue(cd, name, KeyOf(name))
    IN  IF x.t = "num" THEN x.v ELSE d

\* r (hundredths) is x (units of 1/10000) rounded to two decimals
IsRounded(r, x) == r * 100 - x \in -50..50

Cap == 100 * 10000

FrustrationFormula(cd) ==
    Min(Cap, Pct(cd, "RageClickCount", 0) * 35 + Pct(cd, "DeadClickCount", 0) * 25
             + Pct(cd, "ScriptErrorCount", 0) * 20 + Pct(cd, "ErrorClickCount", 0) * 15
             + Pct(cd, "QuickbackClick", 0) * 5)

ConversionRiskFormula(cd) ==
    Min(Cap, Pct(cd, "QuickbackClick", 0) * 40 + Pct(cd, "DeadClickCount", 0) * 30
             + Pct(cd, "ErrorClickCount", 0) * 20
             + (100 * 100 - Pct(cd, "ScrollDepth", 50 * 100)) * 10)

TechHealthFormula(cd) ==
    Max(0, Cap - (Pct(cd, "ScriptErrorCount", 0) * 60
                  + Pct(cd, "ErrorClickCount", 0) * 40))

\* C1: with a non-empty 'webshop' list and percentages in 0..100 (absent
\* ones counted as 0), calculate_frustration_index returns
\* min(100, Rage*0.35 + Dead*0.25 + ScriptErrors*0.20 + ErrorClicks*0.15
\* + Quickback*0.05) rounded to two decimals.
C1_FrustrationFormula ==
    (called = "calculate_frustration_index" /\ HasWebshopList(country_data))
    => /\ result.t = "num"
       /\ IsRounded(result.v, FrustrationFormula(country_data))

\* Rage 2 %, Dead 0.01 %: 0.7025 is returned as 0.7
C1_Witness ==
    /\ called = "calculate_frustration_index"
    /\ Pct(country_data, "RageClickCount", 0) = 200
    /\ Pct(country_data, "DeadClickCount", 0) = 1
    /\ Pct(country_data, "ScriptErrorCount", 0) = 0
    /\ Pct(country_data, "ErrorClickCount", 0) = 0
    /\ Pct(country_data, "QuickbackClick", 0) = 0
    /\ result = Num(70)

\* C2: with a non-empty 'webshop' list, calculate_conversion_risk returns
\* min(100, Quickback*0.40 + Dead*0.30 + ErrorClicks*0.20 + (100 - S)*0.10)
\* (to two decimals) where S is ScrollDepth.averageScrollDepth whenever it
\* is present, 0 included, and 50 only when it is missing.
C2_ConversionRiskFormula ==
    (called = "calculate_conversion_risk" /\ HasWebshopList(country_data))
    => /\ result.t = "num"
       /\ IsRounded(result.v, ConversionRiskFormula(country_data))

\* C3 as stated: calculate_tech_health returns exactly
\* max(0, 100 - (ScriptErrors*0.60 + ErrorClicks*0.40)).
C3_TechHealthExact ==
    (called = "calculate_tech_health" /\ HasWebshopList(country_data))
    => /\ result.t = "num"
       /\ result.v * 100 = TechHealthFormula(country_data)

\* C3 amended: calculate_tech_health returns
\* max(0, 100 - (ScriptErrors*0.60 + ErrorClicks*0.40)) rounded to two
\* decimals; ScriptErrors = 2 with no ErrorClickCount block gives 98.8.
C3_TechHealthRounded ==
    (called = "calculate_tech_health" /\ HasWebshopList(country_data))
    => /\ result.t = "num"
       /\ IsRounded(result.v, TechHealthFormula(country_data))
       /\ (/\ Pct(country_data, "ScriptErrorCount", 0) = 200
           /\ BlocksNamed(country_data, "ErrorClickCount") = {})
          => result = Num(9880)

C3_Witness ==
    /\ called = "calculate_tech_health"
    /\ Pct(country_data, "ScriptErrorCount", 0) = 200
    /\ BlocksNamed(country_data, "ErrorClickCount") = {}
    /\ result = Num(9880)

\* C4: for percentages in 0..100 the Frustration Index and the Conversion
\* Risk never exceed 100, and five Frustration inputs of 100 give exactly 100.
C4_UpperCap ==
    (called \in {"calculate_frustration_index", "calculate_conversion_risk"}
     /\ HasWebshopList(country_data))
    => /\ result.t = "num"
       /\ result.v <= 100 * 100
       /\ (/\ called = "calculate_frustration_index"
           /\ \A n \in {"RageClickCount", "DeadClickCount", "ScriptErrorCount",
                        "ErrorClickCount", "QuickbackClick"} :
                  Pct(country_data, n, 0) = 100 * 100)
          => result = Num(100 * 100)

C4_Witness ==
    /\ called = "calculate_frustration_index"
    /\ \A n \in {"RageClickCount", "DeadClickCount", "ScriptErrorCount",
                 "ErrorClickCount", "QuickbackClick"} :
           Pct(country_data, n, 0) = 100 * 100
    /\ result = Num(100 * 100)

\* C5: for percentages in 0..100 Tech Health, Engagement and Localization
\* Quality stay within 0..100, and ScriptErrors = ErrorClicks = 100 gives
\* Tech Health exactly 0.
C5_FloorAndRange ==
    (called \in {"calculate_tech_health", "calculate_engagement",
                 "calculate_localization_quality"}
     /\ HasWebshopList(country_data))
    => /\ result.t = "num"
       /\ result.v >= 0
       /\ result.v <= 100 * 100
       /\ (/\ called = "calculate_tech_health"
           /\ Pct(country_data, "ScriptErrorCount", 0) = 100 * 100
           /\ Pct(country_data, "ErrorClickCount", 0) = 100 * 100)
          => result = Num(0)

\* Engagement of scroll depth 0 and rage clicks 100 is floored from -50 to 0
C5_Witness ==
    /\ called = "calculate_engagement"
    /\ Pct(country_data, "ScrollDepth", 0) = 0
    /\ Pct(country_data, "RageClickCount", 0) = 100 * 100
    /\ result = Num(0)

\* the score every calculator gives when nothing is known: Frustration 0,
\* Conversion Risk 5, Tech Health 100, Engagement 0, Localization Quality 100
NeutralScore(fn) ==
    CASE fn = "calculate_frustration_index" -> Num(0)
      [] fn = "calculate_conversion_risk" -> Num(5 * 100)
      [] fn = "calculate_tech_health" -> Num(100 * 100)
      [] fn = "calculate_engagement" -> Num(0)
      [] OTHER -> Num(100 * 100)

Calculate(fn, cd) ==
    CASE fn = "calculate_frustration_index" -> calculate_frustration_index(cd)
      [] fn = "calculate_conversion_risk" -> calculate_conversion_risk(cd)
      [] fn = "calculate_tech_health" -> calculate_tech_health(cd)
      [] fn = "calculate_engagement" -> calculate_engagement(cd)
      [] OTHER -> calculate_localization_quality(cd)

\* the record with every block of a name replaced by one block holding d
RECURSIVE Without(_, _)
Without(ws, name) ==
    IF ws = <<>> THEN <<>>
    ELSE (IF Head(ws).metricName = name THEN <<>> ELSE <<Head(ws)>>)
         \o Without(Tail(ws), name)

WithValue(cd, name, d) ==
    [cd EXCEPT !.webshop.v =
        Without(cd.webshop.v, name)
        \o <<[metricName |-> name,
              information |-> <<Entry(KeyOf(name), Num(d))>>]>>]

\* what a missing metric stands for in a calculator
DefaultIn(fn, name) ==
    IF fn = "calculate_conversion_risk" /\ name = "ScrollDepth" THEN 50 * 100 ELSE 0

ScoredNames == {MetricNames[i] : i \in 1..Len(MetricNames)}

\* C7: with a non-empty 'webshop' list no calculator raises, a metric that
\* is absent, has an empty 'information' or lacks the key in its first
\* entry counts as 0 in every composite (as 50 for ScrollDepth in
\* Conversion Risk), and with every scored metric missing the scores are
\* Frustration 0, Conversion Risk 5, Tech Health 100, Engagement 0,
\* Localization Quality 100.
C7_MissingMetricDefaults ==
    (called # "none" /\ HasWebshopList(country_data))
    => /\ result.t = "num"
       /\ \A n \in ScoredNames :
            MetricMissing(country_data, n)
            => result = Calculate(called, WithValue(country_data, n, DefaultIn(called, n)))
       /\ (\A n \in ScoredNames : MetricMissing(country_data, n))
          => result = NeutralScore(called)

\* ScrollDepth with an empty 'information', every other metric absent
C7_Witness ==
    /\ called = "calculate_conversion_risk"
    /\ HasWebshopList(country_data)
    /\ BlocksNamed(country_data, "ScrollDepth") # {}
    /\ \A n \in ScoredNames : MetricMissing(country_data, n)
    /\ result = Num(5 * 100)

----------------------------------------------------------------------------
(* Lookup specification: get_metric_value on any 'webshop' list of at most *)
(* MaxBlocks blocks, names repeated or not, each with at most MaxInfo      *)
(* 'information' entries.                                                  *)

LookupNames == {"RageClickCount", "DeadClickCount"}

LookupEntries == {EmptyEntry, Entry(PCT, Num(200)), Entry(PCT, Num(10000))}

SeqsUpTo(S, n) == UNION {[1..k -> S] : k \in 0..n}

LookupBlocks ==
    [metricName : LookupNames, information : SeqsUpTo(LookupEntries, MaxInfo)]

LookupPayloads ==
    {[webshop |-> Absent], [webshop |-> None]}
    \cup {[webshop |-> ListOf(ws)] : ws \in SeqsUpTo(LookupBlocks, MaxBlocks)}

InitLookup ==
    /\ country_data \in LookupPayloads
    /\ called = "none"
    /\ args = NoArgs
    /\ result = None
    /\ DashIdle
    /\ OtherIdle

CallGetMetricValue ==
    \E name \in LookupNames, key \in Keys :
        /\ called' = "get_metric_value"
        /\ args' = [metric_name |-> name, info_key |-> key]
        /\ result' = get_metric_value(country_data, name, key)
        /\ UNCHANGED <<country_data, dashVars, otherVars>>

NextLookup == CallGetMetricValue

SpecLookup == InitLookup /\ [][NextLookup]_vars

\* C8: get_metric_value returns the value at key in the first entry of
\* 'information' of the FIRST block whose metricName matches; blocks of the
\* same name further down are never consulted, and when the first block
\* yields nothing the result is None.
C8_FirstMatchWins ==
    called = "get_metric_value"
    => result = (IF HasWebshopList(country_data)
                 THEN FirstBlockValue(country_data, args.metric_name, args.info_key)
                 ELSE None)

----------------------------------------------------------------------------
(* Dashboard specification: the script's five score tabs over a loaded     *)
(* snapshot.  clarity_data is the snapshot in key order, one               *)
(* [country, data] pair per key; tables holds the row lists and, once a    *)
(* tab has built its DataFrame, the sorted rows.  An exception no handler  *)
(* catches ends the script run: pc names it.                               *)

CountryNames == <<"Austria", "Belgium", "Germany", "Denmark", "France">>

RecordOf(blocks) == [webshop |-> ListOf(<<TrafficBlock>> \o blocks)]

MetricBlock(name, val) ==
    [metricName |-> name, information |-> <<Entry(KeyOf(name), val)>>]

\* records of a snapshot: a healthy one, a saturated one, one stored with
\* NextGen data only, and two with a non-numeric string in a scored field
DashPayloads ==
    { RecordOf(<<MetricBlock("RageClickCount", Num(200)),
                 MetricBlock("ScrollDepth", Num(4000))>>),
      RecordOf(<<MetricBlock("DeadClickCount", Num(10000)),
                 MetricBlock("RageClickCount", Num(10000))>>),
      [webshop |-> ListOf(<<>>)],
      RecordOf(<<MetricBlock("RageClickCount", BadStr)>>),
      RecordOf(<<MetricBlock("ScrollDepth", BadStr)>>) }

Snapshots ==
    UNION {{[i \in 1..k |-> [country |-> CountryNames[i], data |-> d[i]]] :
              d \in [1..k -> DashPayloads]} : k \in 0..MaxCountries}

EmptyTables ==
    [frustration_data |-> <<>>, risk_data |-> <<>>, health_data |-> <<>>,
     engagement_data |-> <<>>, local_data |-> <<>>]

CalcIdle ==
    /\ country_data = [webshop |-> Absent]
    /\ called = "none"
    /\ args = NoArgs
    /\ result = None

InitDash ==
    /\ clarity_data \in Snapshots
    /\ pc = (IF clarity_data = <<>> THEN "no_data" ELSE "tab1")
    /\ idx = 1
    /\ tables = EmptyTables
    /\ CalcIdle
    /\ OtherIdle

get_level_emoji(score, reverse) ==
    IF reverse
    THEN (IF score >= 70 * 100 THEN "CRITICAL"
          ELSE IF score >= 40 * 100 THEN "HIGH"
          ELSE IF score >= 20 * 100 THEN "MEDIUM"
          ELSE "GOOD")
    ELSE (IF score >= 80 * 100 THEN "EXCELLENT"
          ELSE IF score >= 60 * 100 THEN "GOOD"
          ELSE IF score >= 40 * 100 THEN "FAIR"
          ELSE "POOR")

\* mutant: the loop tests neither the 'webshop' block nor `score is not None`
ScoreLoopBody_unguarded(field, score, reverse) ==
    IF score.t = "raise"
    THEN /\ pc' = "ValueError"
         /\ UNCHANGED <<idx, tables>>
    ELSE /\ tables' = [tables EXCEPT ![field] =
                          Append(@, [Country |-> clarity_data[idx].country,
                                     Score |-> score.v,
                                     Level |-> get_level_emoji(score.v, reverse)])]
         /\ idx' = idx + 1
         /\ UNCHANGED pc

\* one iteration of `for country in clarity_data.keys()` of a score tab
ScoreLoopBody(field, score, reverse) ==
    IF NoWebshop(clarity_data[idx].data) \/ score.t = "none"
    THEN /\ idx' = idx + 1
         /\ UNCHANGED <<pc, tables>>
    ELSE IF score.t = "raise"
    THEN /\ pc' = "ValueError"
         /\ UNCHANGED <<idx, tables>>
    ELSE /\ tables' = [tables EXCEPT ![field] =
                          Append(@, [Country |-> clarity_data[idx].country,
                                     Score |-> score.v,
                                     Level |-> get_level_emoji(score.v, reverse)])]
         /\ idx' = idx + 1
         /\ UNCHANGED pc

Ordered(t, ascending) ==
    \A i, j \in 1..Len(t) :
        i < j => IF ascending THEN t[i].Score <= t[j].Score
                 ELSE t[i].Score >= t[j].Score

Range(t) == {t[i] : i \in 1..Len(t)}

\* pd.DataFrame(rows).sort_values(column): a frame of no rows has no such
\* column (KeyError); rows of equal score come in any order
SortValues(field, ascending, next) ==
    IF tables[field] = <<>>
    THEN /\ pc' = "KeyError"
         /\ UNCHANGED <<idx, tables>>
    ELSE \E t \in [1..Len(tables[field]) -> Range(tables[field])] :
            /\ Range(t) = Range(tables[field])
            /\ Ordered(t, ascending)
            /\ tables' = [tables EXCEPT ![field] = t]
            /\ pc' = next
            /\ idx' = 1

FrustrationLoop ==
    /\ pc = "tab1" /\ idx <= Len(clarity_data)
    /\ ScoreLoopBody("frustration_data",
                     calculate_frustration_index(clarity_data[idx].data), TRUE)
    /\ UNCHANGED <<clarity_data, calcVars, otherVars>>

FrustrationTable ==
    /\ pc = "tab1" /\ idx > Len(clarity_data)
    /\ SortValues("frustration_data", FALSE, "tab2")
    /\ UNCHANGED <<clarity_data, calcVars, otherVars>>

RiskLoop ==
    /\ pc = "tab2" /\ idx <= Len(clarity_data)
    /\ ScoreLoopBody("risk_data",
                     calculate_conversion_risk(clarity_data[idx].data), TRUE)
    /\ UNCHANGED <<clarity_data, calcVars, otherVars>>

RiskTable ==
    /\ pc = "tab2" /\ idx > Len(clarity_data)
    /\ SortValues("risk_data", FALSE, "tab3")
    /\ UNCHANGED <<clarity_data, calcVars, otherVars>>

HealthLoop ==
    /\ pc = "tab3" /\ idx <= Len(clarity_data)
    /\ ScoreLoopBody("health_data",
                     calculate_tech_health(clarity_data[idx].data), FALSE)
    /\ UNCHANGED <<clarity_data, calcVars, otherVars>>

HealthTable ==
    /\ pc = "tab3" /\ idx > Len(clarity_data)
    /\ SortValues("health_data", TRUE, "tab4")
    /\ UNCHANGED <<clarity_data, calcVars, otherVars>>

EngagementLoop ==
    /\ pc = "tab4" /\ idx <= Len(clarity_data)
    /\ ScoreLoopBody("engagement_data",
                     calculate_engagement(clarity_data[idx].data), FALSE)
    /\ UNCHANGED <<clarity_data, calcVars, otherVars>>

EngagementTable ==
    /\ pc = "tab4" /\ idx > Len(clarity_data)
    /\ SortValues("engagement_data", FALSE, "tab5")
    /\ UNCHANGED <<clarity_data, calcVars, otherVars>>

LocalizationLoop ==
    /\ pc = "tab5" /\ idx <= Len(clarity_data)
    /\ ScoreLoopBody("local_data",
                     calculate_localization_quality(clarity_data[idx].data), FALSE)
    /\ UNCHANGED <<clarity_data, calcVars, otherVars>>

LocalizationTable ==
    /\ pc = "tab5" /\ idx > Len(clarity_data)
    /\ SortValues("local_data", FALSE, "tab6")
    /\ UNCHANGED <<clarity_data, calcVars, otherVars>>

NextDash ==
    \/ FrustrationLoop
    \/ FrustrationTable
    \/ RiskLoop
    \/ RiskTable
    \/ HealthLoop
    \/ HealthTable
    \/ EngagementLoop
    \/ EngagementTable
    \/ LocalizationLoop
    \/ LocalizationTable

SpecDash == InitDash /\ [][NextDash]_vars

\* C9: a malformed (non-numeric) value in a scored field is treated as
\* 0/default by every calculator; no error reaches the caller, so a bad
\* country record never aborts the scoring of the snapshot's other countries.
C9_MalformedNeverAborts == pc # "ValueError"


----------------------------------------------------------------------------
(* Platform classifier (specification section 4.1).  A URL is a sequence   *)
(* of tokens, so that "contains the substring" is "contains the            *)
(* contiguous token sequence": "webshop.lyreco.no/" contains "shop.lyreco",*)
(* "webshop", "lyreco.no" and ".no/".  cls is the classifier's input, the  *)
(* country name and the payload's metric sequence.                         *)

Labels == {"Netshop", "NextGen", "Webshop", "Support", "Unknown", "Other"}

NetshopCountries == {"Sweden", "Norway"}

NetshopMarkers == { <<".", "se", "/">>, <<".", "no", "/">>,
                    <<"lyreco", ".", "se">>, <<"lyreco", ".", "no">> }
NextGenMarkers == { <<"shop", ".", "lyreco">> }
WebshopMarkers == { <<"web", "shop">>,
                    <<"lyreco", ".", "com", "/", "web", "shop">> }
SupportMarkers == { <<"support", ".", "lyreco">>, <<"help", ".", "lyreco">> }

\* lowercase of a token
LowerToken(t) ==
    CASE t = "Shop" -> "shop"
      [] t = "Lyreco" -> "lyreco"
      [] OTHER -> t

Lower(u) == [i \in 1..Len(u) |-> LowerToken(u[i])]

\* m occurs in u as a contiguous run
Contains(u, m) ==
    \E k \in 0..(Len(u) - Len(m)) : \A i \in 1..Len(m) : u[k + i] = m[i]

ContainsAny(u, ms) == \E m \in ms : Contains(u, m)

NullName == <<"null">>

\* the first block of a name, or no block
RECURSIVE FindBlock(_, _, _)
FindBlock(metrics, i, name) ==
    IF i > Len(metrics) THEN <<>>
    ELSE IF metrics[i].metricName = name THEN <<metrics[i]>>
    ELSE FindBlock(metrics, i + 1, name)

RECURSIVE FieldsOf(_, _)
FieldsOf(info, field) ==
    IF info = <<>> THEN <<>>
    ELSE (IF Head(info)[field] = NullName THEN <<>> ELSE <<Head(info)[field]>>)
         \o FieldsOf(Tail(info), field)

\* the url of every PopularPages entry, then the non-null name of every
\* ReferrerUrl entry
CollectEvidence(metrics) ==
    LET pages == FindBlock(metrics, 1, "PopularPages")
        refs == FindBlock(metrics, 1, "ReferrerUrl")
    IN  (IF pages = <<>> THEN <<>> ELSE FieldsOf(pages[1].information, "url"))
        \o (IF refs = <<>> THEN <<>> ELSE FieldsOf(refs[1].information, "name"))

\* the collected strings, lowercased, joined by whitespace
RECURSIVE Blob(_)
Blob(ev) ==
    IF ev = <<>> THEN <<>>
    ELSE IF Len(ev) = 1 THEN Lower(ev[1])
    ELSE Lower(ev[1]) \o <<" ">> \o Blob(Tail(ev))

\* mutant: the URL rule of NextGen is tried before the Netshop rule
classify_platform_url_first(country, metrics) ==
    LET ev == CollectEvidence(metrics)
        blob == Blob(ev)
    IN  IF ContainsAny(blob, NextGenMarkers) THEN "NextGen"
        ELSE IF country \in NetshopCountries \/ ContainsAny(blob, NetshopMarkers)
        THEN "Netshop"
        ELSE IF ContainsAny(blob, WebshopMarkers) THEN "Webshop"
        ELSE IF ContainsAny(blob, SupportMarkers) THEN "Support"
        ELSE IF ev = <<>> THEN "Unknown"
        ELSE "Other"

\* mutant: a payload without evidence falls through to Other
classify_platform_no_unknown(country, metrics) ==
    LET ev == CollectEvidence(metrics)
        blob == Blob(ev)
    IN  IF country \in NetshopCountries \/ ContainsAny(blob, NetshopMarkers)
        THEN "Netshop"
        ELSE IF ContainsAny(blob, NextGenMarkers) THEN "NextGen"
        ELSE IF ContainsAny(blob, WebshopMarkers) THEN "Webshop"
        ELSE IF ContainsAny(blob, SupportMarkers) THEN "Support"
        ELSE "Other"

classify_platform(country, metrics) ==
    LET ev == CollectEvidence(metrics)
        blob == Blob(ev)
    IN  IF country \in NetshopCountries \/ ContainsAny(blob, NetshopMarkers)
        THEN "Netshop"
        ELSE IF ContainsAny(blob, NextGenMarkers) THEN "NextGen"
        ELSE IF ContainsAny(blob, WebshopMarkers) THEN "Webshop"
        ELSE IF ContainsAny(blob, SupportMarkers) THEN "Support"
        ELSE IF ev = <<>> THEN "Unknown"
        ELSE "Other"

(* Inputs of the classifier specification *)

UrlShopCom == <<"https://", "shop", ".", "lyreco", ".", "com", "/">>
UrlShopPl == <<"https://", "Shop", ".", "Lyreco", ".", "pl", "/", "cart">>
UrlWebshopDe == <<"https://", "www", ".", "lyreco", ".", "com", "/", "web", "shop",
                  "/", "de", "/", "product">>
UrlSupport == <<"https://", "support", ".", "lyreco", ".", "com", "/">>
UrlLyrecoSe == <<"https://", "www", ".", "lyreco", ".", "se", "/">>
UrlWebshopNo == <<"https://", "web", "shop", ".", "lyreco", ".", "no", "/">>
UrlOther == <<"https://", "www", ".", "example", ".", "org", "/">>

PageUrls == {UrlShopCom, UrlShopPl, UrlWebshopDe, UrlSupport, UrlLyrecoSe,
             UrlWebshopNo, UrlOther}

ReferrerNames == {NullName, UrlShopCom, UrlOther}

ClsCountries == {"Sweden", "Norway", "Poland", "Germany"}

\* a block, or no block, of a name whose entries carry one field
OptionalBlock(name, field, values) ==
    {<<>>} \cup {<<[metricName |-> name,
                    information |-> [i \in 1..Len(vs) |-> [f \in {field} |-> vs[i]]]]>> :
                   vs \in SeqsUpTo(values, MaxUrls)}

ClsInputs ==
    {[country |-> c, metrics |-> p \o r] :
        c \in ClsCountries,
        p \in OptionalBlock("PopularPages", "url", PageUrls),
        r \in OptionalBlock("ReferrerUrl", "name", ReferrerNames)}

InitClassify ==
    /\ cls \in ClsInputs
    /\ CalcIdle
    /\ DashIdle
    /\ HarvIdle
    /\ LoadIdle

CallClassifyPlatform ==
    /\ called' = "classify_platform"
    /\ result' = [t |-> "label", v |-> classify_platform(cls.country, cls.metrics)]
    /\ UNCHANGED <<country_data, args, dashVars, otherVars>>

NextClassify == CallClassifyPlatform

SpecClassify == InitClassify /\ [][NextClassify]_vars

(* What the classifier claims speak of, URL by URL *)

\* every string the payload offers as evidence
EvidenceOf(c) ==
    UNION {{c.metrics[i].information[j][f] :
               j \in 1..Len(c.metrics[i].information),
               f \in (IF c.metrics[i].metricName = "PopularPages"
                      THEN {"url"} ELSE {"name"})} :
            i \in 1..Len(c.metrics)} \ {NullName}

Shows(c, markers) == \E u \in EvidenceOf(c) : ContainsAny(Lower(u), markers)

NetshopRule(c) == c.country \in NetshopCountries \/ Shows(c, NetshopMarkers)

Classified == called = "classify_platform"

\* C11: the rules are tried in the order Netshop, NextGen, Webshop,
\* Support, Unknown, Other and the first that matches decides; Sweden or
\* Norway with "shop.lyreco" evidence is Netshop, never NextGen; the result
\* is always one label of the closed set.
C11_RuleOrder ==
    Classified =>
      /\ result.v \in Labels
      /\ result.v = "Netshop" <=> NetshopRule(cls)
      /\ result.v = "NextGen" <=> (~NetshopRule(cls) /\ Shows(cls, NextGenMarkers))
      /\ result.v = "Webshop" <=>
            (/\ ~NetshopRule(cls) /\ ~Shows(cls, NextGenMarkers)
             /\ Shows(cls, WebshopMarkers))
      /\ result.v = "Support" <=>
            (/\ ~NetshopRule(cls) /\ ~Shows(cls, NextGenMarkers)
             /\ ~Shows(cls, WebshopMarkers) /\ Shows(cls, SupportMarkers))
      /\ (cls.country \in NetshopCountries /\ Shows(cls, NextGenMarkers))
         => result.v = "Netshop"

C11_Witness ==
    /\ Classified
    /\ cls.country = "Sweden"
    /\ EvidenceOf(cls) = {UrlShopCom}
    /\ result.v = "Netshop"

\* C12: with no PopularPages and no ReferrerUrl evidence (blocks absent or
\* empty, an empty metric sequence included) and a country outside
\* {Sweden, Norway} the classifier returns Unknown; Other is returned only
\* when evidence was collected and matched no marker.
C12_UnknownWithoutEvidence ==
    Classified =>
      /\ (EvidenceOf(cls) = {} /\ cls.country \notin NetshopCountries)
         => result.v = "Unknown"
      /\ result.v = "Other"
         => /\ EvidenceOf(cls) # {}
            /\ ~Shows(cls, NetshopMarkers \cup NextGenMarkers
                             \cup WebshopMarkers \cup SupportMarkers)

C12_Witness ==
    /\ Classified
    /\ cls.country = "Poland"
    /\ cls.metrics # <<>>
    /\ EvidenceOf(cls) = {}
    /\ result.v = "Unknown"


----------------------------------------------------------------------------
(* Harvester (src/harvester.py).  clock is today's date, counted as the    *)
(* day of the month; issued counts the requests sent to the Clarity API.   *)

DaysOfMonth == 1..31

COUNTRY_ROTATIONS ==
    [r \in 0..3 |->
        CASE r = 0 -> <<"Austria", "Belgium", "Switzerland", "Germany", "Denmark">>
          [] r = 1 -> <<"Finland", "France", "Hungary", "Ireland", "Italy">>
          [] r = 2 -> <<"Luxembourg", "Netherlands", "Norway", "Poland", "Portugal">>
          [] OTHER -> <<"Sweden", "Slovakia", "Spain", "UK", "ZenDesk">>]

\* mutant: the day is not shifted to start at 0
get_rotation_day_unshifted(day_of_month) == (day_of_month \div 4) % 4

get_rotation_day(day_of_month) == ((day_of_month - 1) \div 4) % 4

get_countries_for_today(day_of_month) ==
    COUNTRY_ROTATIONS[get_rotation_day(day_of_month)]

(* fetch_project_data.  A response of the API is an exception of the       *)
(* client (timeout, connection error) or a status with a body; a body is   *)
(* a JSON list of metric blocks, JSON that has no len() (a number, null),  *)
(* or text that is not JSON.                                               *)

EmptyDict == [t |-> "dict", v |-> <<>>]

MetricsBody == ListOf(<<TrafficBlock>>)

Bodies == {MetricsBody, ListOf(<<>>),
           [t |-> "scalar", v |-> <<>>], [t |-> "unparsable", v |-> <<>>]}

Responses ==
    [kind : {"exception"}, status : {0}, body : {EmptyDict}]
    \cup [kind : {"response"}, status : {200, 403, 429}, body : Bodies]

\* bool(data) of a fetched value
HasData(data) == data.t = "list" /\ Len(data.v) > 0

\* mutant: no try/except around the request
fetch_project_data_unguarded(project_id, token, resp) ==
    IF project_id = "" \/ token = ""
    THEN [requested |-> FALSE, value |-> EmptyDict]
    ELSE [requested |-> TRUE,
          value |-> IF resp.kind = "exception" THEN ValueError
                    ELSE IF resp.status = 200
                    THEN (IF resp.body.t = "list" THEN resp.body ELSE ValueError)
                    ELSE EmptyDict]

\* the value returned and whether a request was sent
fetch_project_data(project_id, token, resp) ==
    IF project_id = "" \/ token = ""
    THEN [requested |-> FALSE, value |-> EmptyDict]
    ELSE [requested |-> TRUE,
          value |-> IF resp.kind = "exception" THEN EmptyDict
                    ELSE IF resp.status = 200
                    THEN (IF resp.body.t = "list" THEN resp.body ELSE EmptyDict)
                    ELSE EmptyDict]

(* Direct calls of the harvester's functions *)

InitHarvestCalls ==
    /\ clock \in DaysOfMonth
    /\ disk = EmptyDisk
    /\ run = [pc |-> "idle"]
    /\ issued = 0
    /\ CalcIdle
    /\ DashIdle
    /\ ClsIdle
    /\ LoadIdle

CallGetRotationDay ==
    /\ called' = "get_rotation_day"
    /\ args' = NoArgs
    /\ result' = Num(get_rotation_day(clock))
    /\ UNCHANGED <<country_data, dashVars, otherVars>>

CallGetCountriesForToday ==
    /\ called' = "get_countries_for_today"
    /\ args' = NoArgs
    /\ result' = ListOf(get_countries_for_today(clock))
    /\ UNCHANGED <<country_data, dashVars, otherVars>>

CallFetchProjectData ==
    \E project_id \in {"", "p1"}, token \in {"", "t1"}, resp \in Responses :
        LET r == fetch_project_data(project_id, token, resp)
        IN  /\ issued < MaxIssued
            /\ called' = "fetch_project_data"
            /\ args' = [project_id |-> project_id, token |-> token, resp |-> resp]
            /\ result' = r.value
            /\ issued' = IF r.requested THEN issued + 1 ELSE issued
            /\ UNCHANGED <<country_data, dashVars, clsVars, loadVars,
                           clock, disk, run>>

NextHarvestCalls ==
    \/ CallGetRotationDay
    \/ CallGetCountriesForToday
    \/ CallFetchProjectData

SpecHarvestCalls == InitHarvestCalls /\ [][NextHarvestCalls]_vars

\* the rotation table of the module docstring and of the comment in
\* get_rotation_day
DocumentedRotationDay(d) ==
    CASE d \in 1..4 -> 0
      [] d \in 5..8 -> 1
      [] d \in 9..12 -> 2
      [] d \in 13..16 -> 3
      [] d \in 17..20 -> 0
      [] d \in 21..24 -> 1
      [] d \in 25..28 -> 2
      [] d \in 29..31 -> 3

DocumentedGroup(r) ==
    CASE r = 0 -> {"Austria", "Belgium", "Switzerland", "Germany", "Denmark"}
      [] r = 1 -> {"Finland", "France", "Hungary", "Ireland", "Italy"}
      [] r = 2 -> {"Luxembourg", "Netherlands", "Norway", "Poland", "Portugal"}
      [] r = 3 -> {"Sweden", "Slovakia", "Spain", "UK", "ZenDesk"}

\* C14: for every day of month 1..31 get_rotation_day follows the
\* documented table (1-4 -> 0, 5-8 -> 1, 9-12 -> 2, 13-16 -> 3, 17-20 -> 0,
\* 21-24 -> 1, 25-28 -> 2, 29-31 -> 3) and get_countries_for_today returns
\* exactly the 5 countries of that group.
C14_RotationTable ==
    /\ called = "get_rotation_day"
       => (result.v \in 0..3 /\ result.v = DocumentedRotationDay(clock))
    /\ called = "get_countries_for_today"
       => /\ Len(result.v) = 5
          /\ Range(result.v) = DocumentedGroup(DocumentedRotationDay(clock))

C14_Witness ==
    /\ called = "get_countries_for_today"
    /\ clock = 31
    /\ result.v = <<"Sweden", "Slovakia", "Spain", "UK", "ZenDesk">>

FetchReturns ==
    called = "fetch_project_data"
    => /\ result.t # "raise"
       /\ (args.project_id = "" \/ args.token = "") => result = EmptyDict
       /\ (args.resp.kind = "exception" \/ args.resp.status # 200
           \/ args.resp.body.t = "unparsable") => result = EmptyDict
       /\ result # EmptyDict
          => /\ args.resp.kind = "response"
             /\ args.resp.status = 200
             /\ result = args.resp.body

FetchWithoutCredentials ==
    (called' = "fetch_project_data" /\ (args'.project_id = "" \/ args'.token = ""))
    => issued' = issued

\* C18: fetch_project_data never raises; without a project id or a token
\* it returns {} and sends no request; on a status other than 200 and on any
\* exception (timeout, connection error, unparsable body) it returns {}; it
\* returns the response body only on status 200.
C18_FetchNeverRaises == []FetchReturns /\ [][FetchWithoutCredentials]_vars

C18_Witness ==
    /\ called = "fetch_project_data"
    /\ args.project_id = "p1" /\ args.token = "t1"
    /\ args.resp.kind = "response" /\ args.resp.status = 200
    /\ args.resp.body.t = "unparsable"
    /\ result = EmptyDict
    /\ issued = 1


----------------------------------------------------------------------------
(* harvest().  run holds the locals of the running harvest and its         *)
(* position; w_ok, n_ok and expect are history variables that note, from   *)
(* the API's responses alone, which fetches brought non-empty data.        *)

max_requests == 10

load_projects(csv) == IF ~csv.exists THEN <<>> ELSE csv.rows

\* mutant: the projects are not filtered by today's rotation
FilterProjects_unfiltered(all_projects, countries) == all_projects

\* [p for p in all_projects if p['country'] in countries_to_harvest]
FilterProjects(all_projects, countries) ==
    LET Today(p) == p.country \in Range(countries)
    IN  SelectSeq(all_projects, Today)

\* mutant: merged is set when either fetch brought data
aggregate_country_data_either(webshop_data, nextgen_data, country, now) ==
    [country |-> country, timestamp |-> now,
     webshop |-> webshop_data, nextgen |-> nextgen_data,
     merged |-> HasData(webshop_data) \/ HasData(nextgen_data)]

aggregate_country_data(webshop_data, nextgen_data, country, now) ==
    [country |-> country, timestamp |-> now,
     webshop |-> webshop_data, nextgen |-> nextgen_data,
     merged |-> HasData(webshop_data) /\ HasData(nextgen_data)]

\* d[key] = value of a dict kept as a sequence of [country, data] in
\* insertion order
DictKeys(d) == {d[i].country : i \in 1..Len(d)}

DictSet(d, key, value) ==
    IF key \in DictKeys(d)
    THEN [i \in 1..Len(d) |-> IF d[i].country = key
                              THEN [country |-> key, data |-> value] ELSE d[i]]
    ELSE Append(d, [country |-> key, data |-> value])

DictGet(d, key) == (CHOOSE i \in 1..Len(d) : d[i].country = key)

RECURSIVE SumMetrics(_)
SumMetrics(d) ==
    IF d = <<>> THEN 0
    ELSE Len(Head(d).data.webshop.v) + Len(Head(d).data.nextgen.v)
         + SumMetrics(Tail(d))

\* the files of the data directory after open(filename, 'w') and json.dump
WriteFile(files, date, content) ==
    [d \in (DOMAIN files) \cup {date} |-> IF d = date THEN content ELSE files[d]]

ExitCode(success) == IF success THEN 0 ELSE 1

NewRun(n) ==
    [pc |-> "start", n |-> n, rotation_day |-> 0, projects_today |-> <<>>,
     i |-> 0, webshop_data |-> EmptyDict, nextgen_data |-> EmptyDict,
     all_data |-> <<>>, request_count |-> 0,
     returned |-> "none", exit_code |-> -1, saves |-> 0, appends |-> 0,
     w_ok |-> FALSE, n_ok |-> FALSE, expect |-> <<>>]

\* the response carries a non-empty list of metrics
BringsData(resp) ==
    resp.kind = "response" /\ resp.status = 200
    /\ resp.body.t = "list" /\ resp.body.v # <<>>

\* lines 163-190: rotation, load_projects, the filter and the two early returns
HarvestStart ==
    /\ run.pc = "start"
    /\ LET rotation_day == get_rotation_day(clock)
           countries_to_harvest == get_countries_for_today(clock)
           all_projects == load_projects(disk.projects)
           projects_today == FilterProjects(all_projects, countries_to_harvest)
       IN  IF all_projects = <<>> \/ projects_today = <<>>
           THEN run' = [run EXCEPT !.pc = "returned", !.returned = "False",
                                   !.rotation_day = rotation_day]
           ELSE run' = [run EXCEPT !.pc = "webshop", !.rotation_day = rotation_day,
                                   !.projects_today = projects_today, !.i = 1,
                                   !.all_data = <<>>, !.request_count = 0]
    /\ UNCHANGED <<clock, disk, issued, calcVars, dashVars, clsVars, loadVars>>

\* lines 192-210: the Webshop fetch of the current project
FetchWebshop ==
    /\ run.pc = "webshop"
    /\ LET project == run.projects_today[run.i]
       IN  IF project.webshop_id # "" /\ project.webshop_token # ""
           THEN \E resp \in Responses :
                  LET r == fetch_project_data(project.webshop_id,
                                              project.webshop_token, resp)
                  IN  /\ run' = [run EXCEPT
                                   !.pc = "nextgen",
                                   !.webshop_data = r.value,
                                   !.nextgen_data = EmptyDict,
                                   !.request_count =
                                       IF HasData(r.value) THEN @ + 1 ELSE @,
                                   !.w_ok = BringsData(resp),
                                   !.n_ok = FALSE]
                      /\ issued' = IF r.requested THEN issued + 1 ELSE issued
           ELSE /\ run' = [run EXCEPT !.pc = "nextgen",
                                      !.webshop_data = EmptyDict,
                                      !.nextgen_data = EmptyDict,
                                      !.w_ok = FALSE, !.n_ok = FALSE]
                /\ UNCHANGED issued
    /\ UNCHANGED <<clock, disk, calcVars, dashVars, clsVars, loadVars>>

\* lines 212-223: the NextGen fetch of the current project
FetchNextGen ==
    /\ run.pc = "nextgen"
    /\ LET project == run.projects_today[run.i]
       IN  IF project.nextgen_id # "" /\ project.nextgen_token # ""
           THEN \E resp \in Responses :
                  LET r == fetch_project_data(project.nextgen_id,
                                              project.nextgen_token, resp)
                  IN  /\ run' = [run EXCEPT
                                   !.pc = "aggregate",
                                   !.nextgen_data = r.value,
                                   !.request_count =
                                       IF HasData(r.value) THEN @ + 1 ELSE @,
                                   !.n_ok = BringsData(resp)]
                      /\ issued' = IF r.requested THEN issued + 1 ELSE issued
           ELSE /\ run' = [run EXCEPT !.pc = "aggregate"]
                /\ UNCHANGED issued
    /\ UNCHANGED <<clock, disk, calcVars, dashVars, clsVars, loadVars>>

\* lines 225-235: store the country's record, check the API limit, go on
Aggregate ==
    /\ run.pc = "aggregate"
    /\ LET country == run.projects_today[run.i].country
           stored == HasData(run.webshop_data) \/ HasData(run.nextgen_data)
           all_data == IF stored
                       THEN DictSet(run.all_data, country,
                                    aggregate_country_data(run.webshop_data,
                                                           run.nextgen_data,
                                                           country, clock))
                       ELSE run.all_data
           last == run.request_count >= max_requests
                   \/ run.i = Len(run.projects_today)
           seen == run.w_ok \/ run.n_ok
           prev == IF country \in DictKeys(run.expect)
                   THEN run.expect[DictGet(run.expect, country)].data
                   ELSE [stored |-> FALSE, merged |-> FALSE]
       IN  run' = [run EXCEPT
                     !.all_data = all_data,
                     !.pc = IF last THEN "save" ELSE "webshop",
                     !.i = IF last THEN @ ELSE @ + 1,
                     !.expect = DictSet(@, country,
                                   IF seen
                                   THEN [stored |-> TRUE,
                                         merged |-> run.w_ok /\ run.n_ok]
                                   ELSE prev)]
    /\ UNCHANGED <<clock, disk, issued, calcVars, dashVars, clsVars, loadVars>>

\* lines 237-239 and 125-133: save_daily_data
SaveDailyData ==
    /\ run.pc = "save"
    /\ disk' = [disk EXCEPT !.files = WriteFile(@, clock, run.all_data)]
    /\ run' = [run EXCEPT !.pc = "history", !.saves = @ + 1]
    /\ UNCHANGED <<clock, issued, calcVars, dashVars, clsVars, loadVars>>

\* lines 241-251 and 136-160: update_history_csv, return True
UpdateHistory ==
    /\ run.pc = "history"
    /\ disk' = [disk EXCEPT !.history =
                  Append(@, [date |-> clock,
                             rotation_day |-> run.rotation_day,
                             countries_processed |-> Len(run.all_data),
                             countries |-> [i \in 1..Len(run.all_data) |->
                                              run.all_data[i].country],
                             total_metrics |-> SumMetrics(run.all_data)])]
    /\ run' = [run EXCEPT !.pc = "returned", !.returned = "True",
                          !.appends = @ + 1]
    /\ UNCHANGED <<clock, issued, calcVars, dashVars, clsVars, loadVars>>

\* lines 270-279: the entry point
Main ==
    /\ run.pc = "returned"
    /\ run' = [run EXCEPT !.pc = "exited",
                          !.exit_code = ExitCode(run.returned = "True")]
    /\ UNCHANGED <<clock, disk, issued, calcVars, dashVars, clsVars, loadVars>>

NextHarvest ==
    \/ HarvestStart
    \/ FetchWebshop
    \/ FetchNextGen
    \/ Aggregate
    \/ SaveDailyData
    \/ UpdateHistory
    \/ Main

(* projects.csv of the harvest specification *)

Row(country, w, n) ==
    [country |-> country,
     webshop_id |-> IF w THEN "w-id" ELSE "", webshop_token |-> IF w THEN "w-token" ELSE "",
     nextgen_id |-> IF n THEN "n-id" ELSE "", nextgen_token |-> IF n THEN "n-token" ELSE ""]

RowTypes == {Row("Austria", TRUE, TRUE), Row("Austria", TRUE, FALSE),
             Row("Belgium", TRUE, TRUE), Row("Finland", TRUE, TRUE)}

\* a day of rotation group 0 and a day of group 1
HarvestDays == {1, 5}

InitHarvest ==
    /\ clock \in HarvestDays
    /\ \E csv \in {[exists |-> FALSE, rows |-> <<>>]}
                  \cup [exists : {TRUE}, rows : SeqsUpTo(RowTypes, MaxRows)] :
          disk = [EmptyDisk EXCEPT !.projects = csv]
    /\ run = NewRun(1)
    /\ issued = 0
    /\ CalcIdle
    /\ DashIdle
    /\ ClsIdle
    /\ LoadIdle

SpecHarvest == InitHarvest /\ [][NextHarvest]_vars


(* projects.csv of the API-limit specification: up to MaxProjects rows,    *)
(* all of today's rotation group, each with both projects configured      *)

LimitRows == {Row("Austria", TRUE, TRUE)}

InitHarvestLimit ==
    /\ clock = 1
    /\ \E rows \in SeqsUpTo(LimitRows, MaxProjects) :
          disk = [EmptyDisk EXCEPT !.projects = [exists |-> TRUE, rows |-> rows]]
    /\ run = NewRun(1)
    /\ issued = 0
    /\ CalcIdle
    /\ DashIdle
    /\ ClsIdle
    /\ LoadIdle

SpecHarvestLimit == InitHarvestLimit /\ [][NextHarvest]_vars

LoopExited == run.pc \in {"save", "history", "returned", "exited"}

\* C15: a run issues at most max_requests API requests, and request_count
\* is at most max_requests when the loop exits.
C15_RequestLimit ==
    /\ issued <= max_requests
    /\ (LoopExited /\ run.returned # "False") => run.request_count <= max_requests


\* what the responses of the processed projects say about a country: was
\* data brought for it, and by both fetches of the project that stored it
Expected(country) == run.expect[DictGet(run.expect, country)].data

Processed == IF run.pc = "idle" THEN {} ELSE DictKeys(run.expect)

StoredRecord(country) == run.all_data[DictGet(run.all_data, country)].data

\* C16: a country is a key of all_data iff it has been processed and at
\* least one of its fetches brought non-empty data; its merged flag is true
\* iff both fetches did; a country whose fetches both failed is not stored.
C16_StoredCountries ==
    run.pc # "idle" =>
        /\ DictKeys(run.all_data) = {c \in Processed : Expected(c).stored}
        /\ \A c \in DictKeys(run.all_data) :
              StoredRecord(c).merged = Expected(c).merged

C16_Witness ==
    /\ run.pc = "save"
    /\ \E c \in DictKeys(run.all_data) : StoredRecord(c).merged
    /\ \E c \in Processed : c \notin DictKeys(run.all_data)


\* projects.csv is missing or empty, or none of its rows is of a country of
\* today's documented rotation group
NothingToHarvest ==
    LET rows == IF disk.projects.exists THEN disk.projects.rows ELSE <<>>
        group == DocumentedGroup(DocumentedRotationDay(clock))
    IN  \A i \in 1..Len(rows) : rows[i].country \notin group

Finished == run.pc \in {"returned", "exited"}

\* C17: harvest returns False, with no API request, no snapshot and no
\* history row, exactly when no project was loaded or none is of today's
\* group; otherwise it returns True after writing the snapshot once and then
\* one history row; the process exits 0 iff harvest returned True.
C17_ReturnValue ==
    /\ run.pc # "idle" => (run.saves <= 1 /\ run.appends <= run.saves)
    /\ Finished =>
          /\ run.returned = "False" <=> NothingToHarvest
          /\ run.returned = "True" <=> ~NothingToHarvest
          /\ run.returned = "False" =>
                /\ issued = 0
                /\ run.saves = 0 /\ DOMAIN disk.files = {}
                /\ run.appends = 0 /\ disk.history = <<>>
          /\ run.returned = "True" =>
                /\ run.saves = 1 /\ DOMAIN disk.files = {clock}
                /\ run.appends = 1 /\ Len(disk.history) = 1
    /\ run.pc = "exited" => (run.exit_code = 0 <=> run.returned = "True")

\* a run whose fetches all failed still returns True and exits 0
C17_Witness ==
    /\ run.pc = "exited"
    /\ run.returned = "True"
    /\ run.exit_code = 0
    /\ issued > 0
    /\ run.all_data = <<>>


----------------------------------------------------------------------------
(* A sequence of harvester runs on one data directory: when a run has      *)
(* exited the next one may start, on the same day or after midnight.       *)

StartNextRun ==
    /\ run.pc = "exited"
    /\ run.n < MaxRuns
    /\ run' = NewRun(run.n + 1)
    /\ UNCHANGED <<clock, disk, issued, calcVars, dashVars, clsVars, loadVars>>

Midnight ==
    /\ run.pc = "exited"
    /\ clock < MaxDay
    /\ clock' = clock + 1
    /\ UNCHANGED <<disk, run, issued, calcVars, dashVars, clsVars, loadVars>>

NextRuns ==
    \/ NextHarvest
    \/ StartNextRun
    \/ Midnight

RunsRows == {Row("Austria", TRUE, TRUE), Row("Belgium", TRUE, FALSE)}

InitRuns ==
    /\ clock = 1
    /\ \E rows \in SeqsUpTo(RunsRows, 1) :
          disk = [EmptyDisk EXCEPT !.projects = [exists |-> TRUE, rows |-> rows]]
    /\ run = NewRun(1)
    /\ issued = 0
    /\ CalcIdle
    /\ DashIdle
    /\ ClsIdle
    /\ LoadIdle

SpecRuns == InitRuns /\ [][NextRuns]_vars

\* every snapshot file is still there after the step, with the same content
SnapshotsKept ==
    \A d \in DOMAIN disk.files :
        d \in DOMAIN disk.files' /\ disk.files'[d] = disk.files[d]

\* C13: snapshots are append-only: no step of any run overwrites or changes
\* a snapshot file written before, a same-day one included.
C13_AppendOnly == [][SnapshotsKept]_vars


----------------------------------------------------------------------------
(* load_clarity_data, dashboard.py:20-46, with its @st.cache_data(ttl=3600)*)
(* decorator.  cache is <<>> or holds the memoized return value, shared by *)
(* all sessions; session[s] is st.session_state['data_date'] of session s; *)
(* http_log lists the dates requested by the last call; loaded describes   *)
(* the last call.  Dates are day numbers, yesterday is today - 1.          *)

Unset == -1

Sessions == 1..MaxSessions

SnapshotOf(date) == [t |-> "data", date |-> date]

\* what requests.get and response.json() can do
LoadResponses == {"ok", "bad_json", "not_found", "exception"}

\* lines 22-46, the body: the dates requested, the value returned and the
\* data_date written (Unset: no write)
load_body(today, r1, r2) ==
    IF r1 = "exception" THEN [requests |-> <<today>>, value |-> None, date |-> Unset]
    ELSE IF r1 = "ok"
    THEN [requests |-> <<today>>, value |-> SnapshotOf(today), date |-> today]
    ELSE IF r1 = "bad_json"
    THEN [requests |-> <<today>>, value |-> None, date |-> Unset]
    ELSE IF r2 = "ok"
    THEN [requests |-> <<today, today - 1>>, value |-> SnapshotOf(today - 1),
          date |-> today - 1]
    ELSE [requests |-> <<today, today - 1>>, value |-> None, date |-> Unset]

\* line 187 in session s: a cache hit returns the memoized value without
\* running the body; a miss runs the body and memoizes what it returns
LoadClarityData ==
    /\ \E s \in Sessions :
            IF cache # <<>>
            THEN /\ loaded' = <<[s |-> s, today |-> clock, hit |-> TRUE,
                                 responses |-> <<>>, returned |-> cache[1],
                                 before |-> session[s]]>>
                 /\ http_log' = <<>>
                 /\ UNCHANGED <<cache, session>>
            ELSE \E r1 \in LoadResponses, r2 \in LoadResponses :
                   LET b == load_body(clock, r1, r2)
                   IN  /\ loaded' = <<[s |-> s, today |-> clock, hit |-> FALSE,
                                       responses |-> IF Len(b.requests) = 2
                                                     THEN <<r1, r2>> ELSE <<r1>>,
                                       returned |-> b.value,
                                       before |-> session[s]]>>
                       /\ http_log' = b.requests
                       /\ session' = IF b.date = Unset THEN session
                                     ELSE [session EXCEPT ![s] = b.date]
                       /\ cache' = <<b.value>>
    /\ UNCHANGED <<clock, disk, run, issued, calcVars, dashVars, clsVars>>

\* ttl=3600: the memoized value expires
CacheExpires ==
    /\ cache # <<>>
    /\ loaded # <<>>
    /\ cache' = <<>>
    /\ UNCHANGED <<session, http_log, loaded, harvVars, calcVars, dashVars, clsVars>>

\* datetime.now() passes midnight
NextDay ==
    /\ loaded # <<>>
    /\ clock < MaxDay
    /\ clock' = clock + 1
    /\ UNCHANGED <<disk, run, issued, loadVars, calcVars, dashVars, clsVars>>

NextLoad ==
    \/ LoadClarityData
    \/ CacheExpires
    \/ NextDay

InitLoad ==
    /\ cache = <<>>
    /\ session = [s \in Sessions |-> Unset]
    /\ http_log = <<>>
    /\ loaded = <<>>
    /\ HarvIdle
    /\ CalcIdle
    /\ DashIdle
    /\ ClsIdle

SpecLoad == InitLoad /\ [][NextLoad]_vars


LastCall == loaded[1]

Returned == LastCall.returned

\* the first response of the last call that had status 200, 0 if none
First200 ==
    LET r == LastCall.responses
    IN  IF Len(r) >= 1 /\ r[1] \in {"ok", "bad_json"} THEN 1
        ELSE IF Len(r) = 2 /\ r[2] \in {"ok", "bad_json"} THEN 2
        ELSE 0

\* a request or response.json() of the last call raised
Raised ==
    \E i \in 1..Len(LastCall.responses) :
        LastCall.responses[i] \in {"exception", "bad_json"}

\* C19: load_clarity_data requests today's snapshot first and yesterday's
\* only if today's status is not 200; it returns the data of the first 200
\* response with the session's data_date set to that snapshot's date, and
\* returns None, data_date unchanged, when both responses are non-200 or an
\* exception occurs.
C19_LoadResult ==
    loaded # <<>> =>
        /\ Len(http_log) >= 1 => http_log[1] = LastCall.today
        /\ Len(http_log) = 2 =>
              (http_log[2] = LastCall.today - 1
               /\ LastCall.responses[1] = "not_found")
        /\ Returned.t = "data" =>
              /\ session[LastCall.s] = Returned.date
              /\ Len(http_log) >= 1 =>
                    (First200 # 0 /\ Returned.date = http_log[First200])
        /\ Returned.t = "none" =>
              /\ session[LastCall.s] = LastCall.before
              /\ Len(http_log) >= 1 => (Raised \/ First200 = 0)

----------------------------------------------------------------------------
(* The dashboard script over a snapshot as the harvester stores it: every  *)
(* record is what aggregate_country_data builds, and the script goes on    *)
(* to the cohort and benchmark tabs.                                       *)

BrowserBlock ==
    [metricName |-> "Browser",
     information |-> <<[name |-> "Safari", sessionsCount |-> 10],
                       [name |-> "Chrome", sessionsCount |-> 30]>>]

WebshopMetrics ==
    ListOf(<<TrafficBlock, MetricBlock("RageClickCount", Num(200)),
             MetricBlock("ScrollDepth", Num(4000)), BrowserBlock>>)

SaturatedMetrics ==
    ListOf(<<TrafficBlock, MetricBlock("DeadClickCount", Num(10000)),
             MetricBlock("RageClickCount", Num(10000)),
             MetricBlock("ScriptErrorCount", Num(5000)),
             MetricBlock("ScrollDepth", Num(1000)), BrowserBlock>>)

NextGenMetrics ==
    ListOf(<<TrafficBlock, MetricBlock("RageClickCount", Num(10000)),
             MetricBlock("ScriptErrorCount", Num(10000))>>)

\* what the two fetches of a stored country brought, and when: both
\* projects, Webshop only, NextGen only, and other Webshop metrics
StoredFetches ==
    { [webshop |-> WebshopMetrics, nextgen |-> NextGenMetrics, now |-> 2],
      [webshop |-> WebshopMetrics, nextgen |-> EmptyDict, now |-> 1],
      [webshop |-> EmptyDict, nextgen |-> NextGenMetrics, now |-> 2],
      [webshop |-> SaturatedMetrics, nextgen |-> NextGenMetrics, now |-> 1] }

\* snapshots of up to MaxCountries countries, each with fetches of its own
StoredSnapshots ==
    UNION {{[i \in 1..k |->
               [country |-> CountryNames[i],
                data |-> aggregate_country_data(f[i].webshop, f[i].nextgen,
                                                CountryNames[i], f[i].now)]] :
              f \in {g \in [1..k -> StoredFetches] :
                       \A i, j \in 1..k : i # j => g[i] # g[j]}} :
           k \in 0..MaxCountries}

AllTables ==
    [frustration_data |-> <<>>, risk_data |-> <<>>, health_data |-> <<>>,
     engagement_data |-> <<>>, local_data |-> <<>>,
     cohort_data |-> <<>>, benchmark_data |-> <<>>]

InitStored ==
    /\ clarity_data \in StoredSnapshots
    /\ pc = (IF clarity_data = <<>> THEN "no_data" ELSE "tab1")
    /\ idx = 1
    /\ tables = AllTables
    /\ CalcIdle
    /\ OtherIdle

\* sorted(info, key=sessionsCount, reverse=True): a stable sort
SortedBySessions(info) ==
    CHOOSE p \in [1..Len(info) -> 1..Len(info)] :
        /\ \A i, j \in 1..Len(info) : i # j => p[i] # p[j]
        /\ \A i, j \in 1..Len(info) :
              i < j => \/ info[p[i]].sessionsCount > info[p[j]].sessionsCount
                       \/ /\ info[p[i]].sessionsCount = info[p[j]].sessionsCount
                          /\ p[i] < p[j]

RECURSIVE ScanItems(_, _, _)
ScanItems(ws, i, metric_name) ==
    IF i > Len(ws) THEN <<>>
    ELSE IF ws[i].metricName = metric_name
         THEN [k \in 1..Len(ws[i].information) |->
                 ws[i].information[SortedBySessions(ws[i].information)[k]]]
         ELSE ScanItems(ws, i + 1, metric_name)

get_top_items(cd, metric_name, limit) ==
    IF NoWebshop(cd) THEN <<>>
    ELSE LET items == ScanItems(cd.webshop.v, 1, metric_name)
         IN  SubSeq(items, 1, Min(limit, Len(items)))

\* `calc(...) or 0`
OrZero(x) == IF Truthy(x) THEN x.v ELSE 0

\* lines 636-648: one iteration of the cohort loop
CohortLoop ==
    /\ pc = "tab6" /\ idx <= Len(clarity_data)
    /\ LET cd == clarity_data[idx].data
           browsers == get_top_items(cd, "Browser", 10)
           frustration == calculate_frustration_index(cd)
       IN  IF NoWebshop(cd)
           THEN /\ idx' = idx + 1
                /\ UNCHANGED <<pc, tables>>
           ELSE IF frustration.t = "raise"
           THEN /\ pc' = "ValueError"
                /\ UNCHANGED <<idx, tables>>
           ELSE /\ tables' = [tables EXCEPT !.cohort_data = @ \o
                                [k \in 1..Len(browsers) |->
                                   [Country |-> clarity_data[idx].country,
                                    Browser |-> browsers[k].name,
                                    Sessions |-> browsers[k].sessionsCount,
                                    Country_Frustration |-> frustration.v]]]
                /\ idx' = idx + 1
                /\ UNCHANGED pc
    /\ UNCHANGED <<clarity_data, calcVars, otherVars>>

\* lines 650-656: a frame of no rows has no 'Browser' column to group by
CohortTable ==
    /\ pc = "tab6" /\ idx > Len(clarity_data)
    /\ IF tables.cohort_data = <<>>
       THEN /\ pc' = "KeyError"
            /\ UNCHANGED idx
       ELSE /\ pc' = "tab7"
            /\ idx' = 1
    /\ UNCHANGED <<tables, clarity_data, calcVars, otherVars>>

\* the five calculators, in the order of the tabs
Scores(cd) ==
    <<calculate_frustration_index(cd), calculate_conversion_risk(cd),
      calculate_tech_health(cd), calculate_engagement(cd),
      calculate_localization_quality(cd)>>

\* lines 700-716: one iteration of the benchmark loop
BenchmarkLoop ==
    /\ pc = "tab7" /\ idx <= Len(clarity_data)
    /\ LET cd == clarity_data[idx].data
           s == Scores(cd)
       IN  IF NoWebshop(cd)
           THEN /\ idx' = idx + 1
                /\ UNCHANGED <<pc, tables>>
           ELSE IF \E k \in 1..5 : s[k].t = "raise"
           THEN /\ pc' = "ValueError"
                /\ UNCHANGED <<idx, tables>>
           ELSE /\ tables' = [tables EXCEPT !.benchmark_data =
                                Append(@, [Country |-> clarity_data[idx].country,
                                           Frustration |-> OrZero(s[1]),
                                           Risk |-> OrZero(s[2]),
                                           TechHealth |-> OrZero(s[3]),
                                           Engagement |-> OrZero(s[4]),
                                           Quality |-> OrZero(s[5])])]
                /\ idx' = idx + 1
                /\ UNCHANGED pc
    /\ UNCHANGED <<clarity_data, calcVars, otherVars>>

\* line 718: a frame of no rows has no 'Country' column to index by
BenchmarkTable ==
    /\ pc = "tab7" /\ idx > Len(clarity_data)
    /\ pc' = (IF tables.benchmark_data = <<>> THEN "KeyError" ELSE "done")
    /\ UNCHANGED <<idx, tables, clarity_data, calcVars, otherVars>>

NextStored ==
    \/ NextDash
    \/ CohortLoop
    \/ CohortTable
    \/ BenchmarkLoop
    \/ BenchmarkTable

SpecStored == InitStored /\ [][NextStored]_vars

Stored(i) == clarity_data[i].data

\* the harvester stored the record with NextGen data only
NextGenOnly(i) == ~HasData(Stored(i).webshop) /\ HasData(Stored(i).nextgen)

TableNames == DOMAIN tables

\* the rows of a table for a country, without the country's name
RowsOf(table, country) ==
    {[r EXCEPT !.Country = ""] :
        r \in {tables[table][k] : k \in
                 {n \in 1..Len(tables[table]) : tables[table][n].Country = country}}}

\* C20: scores depend only on a record's 'webshop' block: records with the
\* same 'webshop' get the same result from every calculator and the same
\* rows in every table, whatever their nextgen, country, timestamp and
\* merged; a record stored with NextGen data only gets None from all five
\* calculators and has no row in any table.
C20_WebshopOnly ==
    /\ \A i, j \in 1..Len(clarity_data) :
          Stored(i).webshop = Stored(j).webshop =>
              /\ Scores(Stored(i)) = Scores(Stored(j))
              /\ \A t \in TableNames :
                    LET a == RowsOf(t, clarity_data[i].country)
                        b == RowsOf(t, clarity_data[j].country)
                    IN  (a # {} /\ b # {}) => a = b
    /\ \A i \in 1..Len(clarity_data) :
          NextGenOnly(i) =>
              /\ Scores(Stored(i)) = <<None, None, None, None, None>>
              /\ \A t \in TableNames : RowsOf(t, clarity_data[i].country) = {}

\* all tabs are built from a snapshot that holds two records with the same
\* Webshop metrics and different nextgen, timestamp and merged, and a record
\* with NextGen data only
C20_Witness ==
    /\ pc = "done"
    /\ \E i, j \in 1..Len(clarity_data) :
          /\ HasData(Stored(i).webshop)
          /\ Stored(i).webshop = Stored(j).webshop
          /\ Stored(i).nextgen # Stored(j).nextgen
          /\ Stored(i).timestamp # Stored(j).timestamp
          /\ Stored(i).merged # Stored(j).merged
          /\ RowsOf("benchmark_data", clarity_data[i].country) # {}
    /\ \E i \in 1..Len(clarity_data) : NextGenOnly(i)

====
